---- MODULE Spec2Model ----
(***************************************************************************)
(* Model of services/scraper/app.py: the in-memory task store, the id      *)
(* counter, the submit handler (scrape), and the background worker         *)
(* (process_scraping_task).  Flask serves every request on its own thread  *)
(* and every accepted task gets its own worker thread, so every read or    *)
(* write of shared memory (the counter, the dict, a task object's          *)
(* attributes) is a step of its own.                                       *)
(***************************************************************************)
EXTENDS Integers, Sequences, FiniteSets, TLC

\* ------------------------------------------------------------- bounds
\* Number of POST /api/scrape requests served (one handler thread each).
MaxSubmits == 2
\* Largest accepted page count tried by a request.
MaxPagesTried == 2
MaxReads == 2

\* ---------------------------------------------------- program constants
\* max_pages > PageLimit is rejected (app.py:87).
PageLimit == 10
\* SUPPORTED_FORMATS (app.py:36).
SUPPORTED_FORMATS == {"text", "html", "json", "links"}

\* Python's None for string-valued attributes (error, timestamps).
None == "None"
\* An attribute holding datetime.now().isoformat().
Stamp == "stamp"
\* Python's None for result, which otherwise holds a dict or a list.
NoResult == [kind |-> "none"]

\* ------------------------------------------------------------- strings
\* A URL is a sequence of tokens; the empty sequence is the empty string.
\* The scheme "https://", the separators "/", "?", "&", the text "page="
\* and each decimal digit are tokens of their own.
Digits == {"0", "1", "2", "3", "4", "5", "6", "7", "8", "9"}

DigitVal(c) ==
    CASE c = "0" -> 0 [] c = "1" -> 1 [] c = "2" -> 2 [] c = "3" -> 3
      [] c = "4" -> 4 [] c = "5" -> 5 [] c = "6" -> 6 [] c = "7" -> 7
      [] c = "8" -> 8 [] c = "9" -> 9

DigitChar(d) ==
    CASE d = 0 -> "0" [] d = 1 -> "1" [] d = 2 -> "2" [] d = 3 -> "3"
      [] d = 4 -> "4" [] d = 5 -> "5" [] d = 6 -> "6" [] d = 7 -> "7"
      [] d = 8 -> "8" [] d = 9 -> "9"

\* str(n) for n >= 0: the decimal digits of n.
RECURSIVE ToStr(_)
ToStr(n) == IF n < 10 THEN <<DigitChar(n)>>
            ELSE ToStr(n \div 10) \o <<DigitChar(n % 10)>>

\* int(s) for a non-empty digit string s.
RECURSIVE ToInt(_)
ToInt(s) == IF Len(s) = 1 THEN DigitVal(s[1])
            ELSE 10 * ToInt(SubSeq(s, 1, Len(s) - 1)) + DigitVal(s[Len(s)])

\* ---------------------------------------------------------------- URLs
Schemes == {"http://", "https://"}

\* s.startswith('/')
StartsWithSlash(s) == Len(s) > 0 /\ s[1] = "/"

\* s.startswith(('http://', 'https://'))
StartsWithScheme(s) == Len(s) > 0 /\ s[1] \in Schemes

\* s.rstrip('/')
RECURSIVE RStripSlash(_)
RStripSlash(s) == IF Len(s) > 0 /\ s[Len(s)] = "/"
                  THEN RStripSlash(SubSeq(s, 1, Len(s) - 1))
                  ELSE s

\* Last index of the host of an absolute URL: the tokens after the scheme
\* up to the first separator.
RECURSIVE HostEnd(_, _)
HostEnd(s, i) == IF i + 1 <= Len(s) /\ s[i + 1] \notin {"/", "?", "&"}
                 THEN HostEnd(s, i + 1)
                 ELSE i

\* "{0.scheme}://{0.netloc}".format(urlparse(s)): scheme and host of an
\* absolute URL; a URL without a scheme has neither, leaving "://".
BaseUrl(s) == IF StartsWithScheme(s) THEN SubSeq(s, 1, HostEnd(s, 1))
              ELSE <<"://">>

\* Last index of the run of digits that starts at i.
RECURSIVE DigitRunEnd(_, _)
DigitRunEnd(s, i) == IF i + 1 <= Len(s) /\ s[i + 1] \in Digits
                     THEN DigitRunEnd(s, i + 1)
                     ELSE i

\* A match of page=(\d+) starts at i.
MatchAt(s, i) == /\ i + 1 <= Len(s)
                 /\ s[i] = "page="
                 /\ s[i + 1] \in Digits

\* re.search(r'page=(\d+)', s): index of the first match, 0 when none.
FirstMatch(s) ==
    IF \E i \in 1..Len(s) : MatchAt(s, i)
    THEN CHOOSE i \in 1..Len(s) :
             MatchAt(s, i) /\ \A j \in 1..(i - 1) : ~MatchAt(s, j)
    ELSE 0

\* int(re.search(...).group(1)) if re.search(...) else 1
CurrentPageNum(s) ==
    IF FirstMatch(s) = 0 THEN 1
    ELSE ToInt(SubSeq(s, FirstMatch(s) + 1, DigitRunEnd(s, FirstMatch(s) + 1)))

\* re.sub(r'page=\d+', repl, s) from index i on: every match is replaced.
RECURSIVE SubFrom(_, _, _)
SubFrom(s, i, repl) ==
    IF i > Len(s) THEN <<>>
    ELSE IF MatchAt(s, i)
         THEN repl \o SubFrom(s, DigitRunEnd(s, i + 1) + 1, repl)
         ELSE <<s[i]>> \o SubFrom(s, i + 1, repl)

\* f'page={n}'
PageParam(n) == <<"page=">> \o ToStr(n)

\* app.py:307-311: the pattern rule's next URL.
PatternNext(url) ==
    LET num  == CurrentPageNum(url)
        subd == SubFrom(url, 1, PageParam(num + 1))
    IN  IF subd = url
        THEN url \o <<IF \E i \in 1..Len(url) : url[i] = "?" THEN "&" ELSE "?">>
                 \o PageParam(num + 1)
        ELSE subd

\* app.py:313-323: a non-empty next_page made absolute against the
\* current URL; <<>> (falsy) stays as it is and ends the loop.
Absolutize(current_url, next_page) ==
    IF next_page = <<>> THEN <<>>
    ELSE IF StartsWithSlash(next_page) THEN BaseUrl(current_url) \o next_page
    ELSE IF ~StartsWithScheme(next_page)
         THEN RStripSlash(current_url) \o <<"/">> \o next_page
    ELSE next_page

\* app.py:300-325: the URL the loop continues with, <<>> when it breaks.
\* href is the href of the element the selector rule finds in the page
\* (<<>> when there is no such element or attribute).
NextUrl(pagination, current_url, href) ==
    IF pagination = "selector" THEN Absolutize(current_url, href)
    ELSE IF pagination = "pattern"
         THEN Absolutize(current_url, PatternNext(current_url))
    ELSE <<>>

\* ------------------------------------------------------------ requests
\* The JSON bodies tried.  has_url is 'url' in data; url a URL (possibly
\* the empty string); pagination the kind of the pagination rule;
\* selectors is "none" (no selectors), "ok" (selectors the parser accepts)
\* or "bad" (the selector the format uses is malformed).
GoodUrl == <<"https://", "e.com", "/", "list">>

\* A request as scrape() reads it (app.py:72-82).
Request(has_url, url, format, selectors, pagination, max_pages) ==
    [has_url |-> has_url, url |-> url, format |-> format,
     selectors |-> selectors, pagination |-> pagination,
     max_pages |-> max_pages]

PaginationInputs == {"none", "selector", "pattern"}

\* Requests served concurrently: no pagination with 0 and 1 pages, every
\* pagination kind with the largest page count, an empty URL, and one
\* request for each way of being rejected.
Requests ==
    {Request(TRUE, GoodUrl, "text", "none", "none", m) : m \in 0..1}
    \cup {Request(TRUE, GoodUrl, "text", "none", p, MaxPagesTried) :
             p \in PaginationInputs}
    \cup {Request(TRUE, <<>>, "text", "none", "none", 1),
          Request(FALSE, <<>>, "text", "none", "none", 1),
          Request(TRUE, GoodUrl, "xml", "none", "none", 1),
          Request(TRUE, GoodUrl, "text", "none", "pattern", PageLimit + 1)}

\* Requests served one at a time: every combination of these URLs (empty,
\* plain, with a query, with a page parameter, with a page parameter about
\* to gain a digit, with a per_page parameter after the page parameter,
\* without a scheme), formats, selectors, pagination kinds and page counts,
\* with and without the url key.
WideUrls ==
    {<<>>, GoodUrl,
     <<"https://", "e.com", "/", "list", "?", "q=x">>,
     <<"https://", "e.com", "/", "list", "?", "page=", "2">>,
     <<"https://", "e.com", "/", "list", "?", "page=", "9", "&", "q=x">>,
     <<"https://", "e.com", "/", "list", "?", "page=", "2", "&", "per_",
       "page=", "5", "0">>,
     <<"e.com", "/", "list">>}
WideFormats == {"text", "links", "json", "xml"}
WideMaxPages == ((0 - 1)..MaxPagesTried + 1) \cup {PageLimit + 1}
SelectorInputs == {"none", "ok", "bad"}
WideRequests ==
    {Request(u, url, f, sel, p, m) : u \in BOOLEAN, url \in WideUrls,
        f \in WideFormats, sel \in SelectorInputs, p \in PaginationInputs,
        m \in WideMaxPages}

NoRequest == Request(FALSE, <<>>, "none", "none", "none", 0)

\* The hrefs a fetched page may carry for the selector rule: none, or a
\* root-relative one; served one at a time also a relative and an
\* absolute one.
HrefInputs == {<<>>, <<"/", "next">>}
WideHrefs == HrefInputs \cup {<<"p2">>, <<"https://", "e.com", "/", "p2">>}

\* The application/ld+json script a fetched page may carry: none, one that
\* parses, one that does not.
JsonLdInputs == {"none", "valid", "invalid"}

\* A fetched and parsed page, as far as the loop looks at it.
Page(href, json_ld) == [href |-> href, json_ld |-> json_ld]
NoPage == Page(<<>>, "none")

\* --------------------------------------------------------------- state
Handlers == 1..MaxSubmits
\* A task object is named by the handler that constructed it; the demo
\* task built at start-up is object 0.
DemoObj == 0

VARIABLES
    task_id_counter,   \* the global counter (app.py:33)
    scraping_tasks,    \* the dict: task id -> task object (app.py:32)
    heap,              \* task object -> its attributes
    handler,           \* per request thread: position and locals of scrape()
    worker,            \* per worker thread: position and locals of
                       \* process_scraping_task()
    reader             \* the thread serving GET requests: position and
                       \* locals of get_task() / get_task_result(), and
                       \* the responses it has sent

vars == <<task_id_counter, scraping_tasks, heap, handler, worker, reader>>

\* ScrapingTask.__init__ (app.py:44-57) for an id already drawn.
NewTask(id, r) ==
    [id |-> id, url |-> r.url, format |-> r.format,
     selectors |-> r.selectors,
     pagination |-> r.pagination, max_pages |-> r.max_pages,
     status |-> "pending", created_at |-> Stamp, started_at |-> None,
     completed_at |-> None, result |-> NoResult, error |-> None]

\* A PageResult (app.py:225-229 and its siblings) with its payload.
PageResult(url, payload, page) == [url |-> url, payload |-> payload, page |-> page]

\* The payload a format extracts from a page (app.py:214-295), by name:
\* text, html and links give their content; json gives the selected
\* fields, or the parsed JSON-LD, or {} when the page has none, or the
\* error object of line 289 when it does not parse.
Payload(format, selectors, page) ==
    IF format # "json" THEN format
    ELSE IF selectors # "none" THEN "json_fields"
    ELSE IF page.json_ld = "valid" THEN "json_ld"
    ELSE IF page.json_ld = "invalid" THEN "json_ld_error"
    ELSE "json_empty"

\* The demo task of __main__ (app.py:627-641).
DemoTask ==
    [NewTask(ToStr(1), [url |-> <<"https://", "example.com">>,
                        format |-> "text", selectors |-> "none",
                        pagination |-> "none", max_pages |-> 1])
     EXCEPT !.status = "completed", !.started_at = Stamp,
            !.completed_at = Stamp,
            !.result = [kind |-> "single",
                         value |-> PageResult(<<"https://", "example.com">>,
                                              "text", 1)]]

NoResponse == [code |-> 0, task_id |-> <<>>, status |-> None]

IdleHandler == [pc |-> "idle", req |-> NoRequest, id |-> <<>>, tmp |-> 0,
                response |-> NoResponse]

\* A key the response does not carry.
Absent == [kind |-> "absent"]

\* The response of a GET request: of get_task the status of line 152 and
\* the result or error key of lines 159 and 161; of get_task_result the
\* status named in the message of line 179 or the result of line 181.
Reply(op, task_id, code, status, result, error) ==
    [op |-> op, task_id |-> task_id, code |-> code, status |-> status,
     result |-> result, error |-> error]
NoReply == Reply("none", <<>>, 0, None, Absent, "absent")

IdleReader == [pc |-> "idle", task |-> DemoObj, reply |-> NoReply,
               replies |-> <<>>]

IdleWorker == [pc |-> "unstarted", task_id |-> <<>>, task |-> DemoObj,
               results |-> <<>>, current_url |-> <<>>, pages_scraped |-> 0,
               soup |-> NoPage, exc |-> None, log |-> <<>>]

Init ==
    /\ task_id_counter = 2
    /\ scraping_tasks = (ToStr(1) :> DemoObj)
    /\ heap = (DemoObj :> DemoTask)
    /\ handler = [h \in Handlers |-> IdleHandler]
    /\ worker = [h \in Handlers |-> IdleWorker]
    /\ reader = IdleReader

\* ------------------------------------------------------------ scrape()
\* Validate without the page limit of line 87.
ValidateNoPageLimit(h, R) ==
    /\ handler[h].pc = "idle"
    /\ \E r \in R :
         handler' = [handler EXCEPT ![h] =
            IF ~r.has_url
            THEN [@ EXCEPT !.pc = "done", !.req = r, !.response.code = 400]
            ELSE IF r.format \notin SUPPORTED_FORMATS
            THEN [@ EXCEPT !.pc = "done", !.req = r, !.response.code = 400]
            ELSE [@ EXCEPT !.pc = "init_id", !.req = r]]
    /\ UNCHANGED <<task_id_counter, scraping_tasks, heap, worker, reader>>

\* app.py:72-88: the request, one of R, is read and validated.
Validate(h, R) ==
    /\ handler[h].pc = "idle"
    /\ \E r \in R :
         handler' = [handler EXCEPT ![h] =
            IF ~r.has_url
            THEN [@ EXCEPT !.pc = "done", !.req = r, !.response.code = 400]
            ELSE IF r.format \notin SUPPORTED_FORMATS
            THEN [@ EXCEPT !.pc = "done", !.req = r, !.response.code = 400]
            ELSE IF r.max_pages > PageLimit
            THEN [@ EXCEPT !.pc = "done", !.req = r, !.response.code = 400]
            ELSE [@ EXCEPT !.pc = "init_id", !.req = r]]
    /\ UNCHANGED <<task_id_counter, scraping_tasks, heap, worker, reader>>

\* app.py:42: self.id = str(task_id_counter)
InitId(h) ==
    /\ handler[h].pc = "init_id"
    /\ handler' = [handler EXCEPT ![h].pc = "incr_load",
                                  ![h].id = ToStr(task_id_counter)]
    /\ UNCHANGED <<task_id_counter, scraping_tasks, heap, worker, reader>>

\* app.py:43, task_id_counter += 1: the global is loaded ...
IncrLoad(h) ==
    /\ handler[h].pc = "incr_load"
    /\ handler' = [handler EXCEPT ![h].pc = "incr_store",
                                  ![h].tmp = task_id_counter]
    /\ UNCHANGED <<task_id_counter, scraping_tasks, heap, worker, reader>>

\* ... and stored back incremented; app.py:44-57 then fill the object,
\* which no other thread can reach yet.
IncrStore(h) ==
    /\ handler[h].pc = "incr_store"
    /\ task_id_counter' = handler[h].tmp + 1
    /\ heap' = heap @@ (h :> NewTask(handler[h].id, handler[h].req))
    /\ handler' = [handler EXCEPT ![h].pc = "store"]
    /\ UNCHANGED <<scraping_tasks, worker, reader>>

\* app.py:101: scraping_tasks[task.id] = task
StoreTask(h) ==
    /\ handler[h].pc = "store"
    /\ scraping_tasks' =
          [k \in DOMAIN scraping_tasks \cup {heap[h].id} |->
              IF k = heap[h].id THEN h ELSE scraping_tasks[k]]
    /\ handler' = [handler EXCEPT ![h].pc = "start"]
    /\ UNCHANGED <<task_id_counter, heap, worker, reader>>

\* app.py:104: the worker thread is started with task.id.
StartThread(h) ==
    /\ handler[h].pc = "start"
    /\ worker' = [worker EXCEPT ![h].pc = "lookup",
                                ![h].task_id = heap[h].id]
    /\ handler' = [handler EXCEPT ![h].pc = "respond"]
    /\ UNCHANGED <<task_id_counter, scraping_tasks, heap, reader>>

\* app.py:106-110: the 202 response is built from the task object.
Respond(h) ==
    /\ handler[h].pc = "respond"
    /\ handler' = [handler EXCEPT ![h].pc = "done",
                                  ![h].response = [code |-> 202,
                                                   task_id |-> heap[h].id,
                                                   status |-> heap[h].status]]
    /\ UNCHANGED <<task_id_counter, scraping_tasks, heap, worker, reader>>

\* ----------------------------------------------- process_scraping_task()
\* The task object the worker w holds (its local variable task).
TaskOf(w) == heap[worker[w].task]

\* One entry of a worker's record of what it did to the outside world.
Event(ev, url, ok) == [ev |-> ev, url |-> url, ok |-> ok]

\* app.py:189-193: the id is looked up in the dict.  The handler stored
\* the id before it started the thread, so the id is always found.
Lookup(w) ==
    /\ worker[w].pc = "lookup"
    /\ worker[w].task_id \in DOMAIN scraping_tasks
    /\ worker' = [worker EXCEPT ![w].pc = "set_processing",
                                ![w].task = scraping_tasks[worker[w].task_id]]
    /\ UNCHANGED <<task_id_counter, scraping_tasks, heap, handler, reader>>

\* app.py:194: task.status = 'processing'
SetProcessing(w) ==
    /\ worker[w].pc = "set_processing"
    /\ heap' = [heap EXCEPT ![worker[w].task].status = "processing"]
    /\ worker' = [worker EXCEPT ![w].pc = "set_started"]
    /\ UNCHANGED <<task_id_counter, scraping_tasks, handler, reader>>

\* app.py:195-203: started_at is set and the loop's locals initialised.
SetStarted(w) ==
    /\ worker[w].pc = "set_started"
    /\ heap' = [heap EXCEPT ![worker[w].task].started_at = Stamp]
    /\ worker' = [worker EXCEPT ![w].pc = "loop",
                                ![w].results = <<>>,
                                ![w].current_url = TaskOf(w).url,
                                ![w].pages_scraped = 0]
    /\ UNCHANGED <<task_id_counter, scraping_tasks, handler, reader>>

\* app.py:205: while current_url and pages_scraped < task.max_pages
LoopContinues(w) ==
    /\ worker[w].current_url # <<>>
    /\ worker[w].pages_scraped < TaskOf(w).max_pages

\* app.py:205-208: the loop test, then requests.get and raise_for_status.
\* The fetch succeeds, delivering a page, or raises (time-out, non-2xx
\* status, unusable URL); a URL without a scheme always raises.  H is the
\* set of hrefs the page may carry.  Of the page only what the task looks
\* at is kept: the href for the selector rule, the JSON-LD script for
\* format json without selectors.
Fetch(w, H) ==
    /\ worker[w].pc = "loop"
    /\ LoopContinues(w)
    /\ \/ /\ StartsWithScheme(worker[w].current_url)
          /\ \E href \in H, json_ld \in JsonLdInputs :
               worker' = [worker EXCEPT
                  ![w].pc = "extract",
                  ![w].soup = Page(IF TaskOf(w).pagination = "selector"
                                   THEN href ELSE <<>>,
                                   IF TaskOf(w).format = "json"
                                      /\ TaskOf(w).selectors = "none"
                                   THEN json_ld ELSE "none"),
                  ![w].log = Append(@, Event("fetch", worker[w].current_url, TRUE))]
       \/ worker' = [worker EXCEPT
             ![w].pc = "fail_status",
             ![w].exc = "FetchError",
             ![w].log = Append(@, Event("fetch", worker[w].current_url, FALSE))]
    /\ UNCHANGED <<task_id_counter, scraping_tasks, heap, handler, reader>>

\* app.py:205: the loop test fails and the loop is left.
LoopExit(w) ==
    /\ worker[w].pc = "loop"
    /\ ~LoopContinues(w)
    /\ worker' = [worker EXCEPT ![w].pc = "sleep"]
    /\ UNCHANGED <<task_id_counter, scraping_tasks, heap, handler, reader>>

\* app.py:217, 234, 277: soup.select raises on a malformed selector; the
\* formats text, html and json use the selectors, links does not.
SelectorRaises(w) ==
    /\ TaskOf(w).selectors = "bad"
    /\ TaskOf(w).format \in {"text", "html", "json"}

\* app.py:284-289: what became of the page's JSON-LD script, when the
\* task looks for one and the page has one: parsed, or not.
JsonLdParsed(w) ==
    IF worker[w].soup.json_ld = "none" THEN <<>>
    ELSE <<Event("json_ld", worker[w].current_url,
                 worker[w].soup.json_ld = "valid")>>

\* Extract without the try of lines 286-289: a JSON-LD script that does
\* not parse raises like any other extraction failure.
ExtractUnguarded(w) ==
    /\ worker[w].pc = "extract"
    /\ IF SelectorRaises(w) \/ worker[w].soup.json_ld = "invalid"
       THEN worker' = [worker EXCEPT
               ![w].pc = "fail_status",
               ![w].exc = IF SelectorRaises(w) THEN "SelectorError"
                          ELSE "JSONDecodeError",
               ![w].log = Append(@ \o JsonLdParsed(w),
                                 Event("extract", worker[w].current_url, FALSE))]
       ELSE worker' = [worker EXCEPT
               ![w].pc = "paginate",
               ![w].results = Append(@, PageResult(worker[w].current_url,
                                        Payload(TaskOf(w).format,
                                                TaskOf(w).selectors,
                                                worker[w].soup),
                                        worker[w].pages_scraped + 1)),
               ![w].pages_scraped = @ + 1,
               ![w].log = Append(@ \o JsonLdParsed(w),
                                 Event("extract", worker[w].current_url, TRUE))]
    /\ UNCHANGED <<task_id_counter, scraping_tasks, heap, handler, reader>>

\* Extract tagging the page with pages_scraped instead of pages_scraped + 1.
ExtractZeroBased(w) ==
    /\ worker[w].pc = "extract"
    /\ IF SelectorRaises(w)
       THEN worker' = [worker EXCEPT
               ![w].pc = "fail_status",
               ![w].exc = "SelectorError",
               ![w].log = Append(@, Event("extract", worker[w].current_url, FALSE))]
       ELSE worker' = [worker EXCEPT
               ![w].pc = "paginate",
               ![w].results = Append(@, PageResult(worker[w].current_url,
                                        Payload(TaskOf(w).format,
                                                TaskOf(w).selectors,
                                                worker[w].soup),
                                        worker[w].pages_scraped)),
               ![w].pages_scraped = @ + 1,
               ![w].log = Append(@ \o JsonLdParsed(w),
                                 Event("extract", worker[w].current_url, TRUE))]
    /\ UNCHANGED <<task_id_counter, scraping_tasks, heap, handler, reader>>

\* app.py:211-297: the page is parsed and extracted, its PageResult
\* appended and pages_scraped incremented; or the selector raises.  A
\* JSON-LD script that does not parse raises nothing (line 288).
Extract(w) ==
    /\ worker[w].pc = "extract"
    /\ IF SelectorRaises(w)
       THEN worker' = [worker EXCEPT
               ![w].pc = "fail_status",
               ![w].exc = "SelectorError",
               ![w].log = Append(@, Event("extract", worker[w].current_url, FALSE))]
       ELSE worker' = [worker EXCEPT
               ![w].pc = "paginate",
               ![w].results = Append(@, PageResult(worker[w].current_url,
                                        Payload(TaskOf(w).format,
                                                TaskOf(w).selectors,
                                                worker[w].soup),
                                        worker[w].pages_scraped + 1)),
               ![w].pages_scraped = @ + 1,
               ![w].log = Append(@ \o JsonLdParsed(w),
                                 Event("extract", worker[w].current_url, TRUE))]
    /\ UNCHANGED <<task_id_counter, scraping_tasks, heap, handler, reader>>

\* app.py:300: if task.pagination and pages_scraped < task.max_pages
ResolverInvoked(w) ==
    /\ TaskOf(w).pagination # "none"
    /\ worker[w].pages_scraped < TaskOf(w).max_pages

\* app.py:299-325: the next URL is resolved, or the loop is broken.
Paginate(w) ==
    /\ worker[w].pc = "paginate"
    /\ LET next == NextUrl(TaskOf(w).pagination, worker[w].current_url,
                           worker[w].soup.href)
       IN  IF ResolverInvoked(w)
           THEN worker' = [worker EXCEPT
                   ![w].pc = IF next # <<>> THEN "loop" ELSE "sleep",
                   ![w].current_url = IF next # <<>> THEN next ELSE @,
                   ![w].soup = NoPage,
                   ![w].log = Append(@, Event("resolve", worker[w].current_url,
                                              next # <<>>))]
           ELSE worker' = [worker EXCEPT ![w].pc = "sleep", ![w].soup = NoPage]
    /\ UNCHANGED <<task_id_counter, scraping_tasks, heap, handler, reader>>

\* app.py:328: time.sleep(random.uniform(1, 3))
Sleep(w) ==
    /\ worker[w].pc = "sleep"
    /\ worker' = [worker EXCEPT
          ![w].pc = "set_result",
          ![w].log = Append(@, Event("delay", <<>>, TRUE))]
    /\ UNCHANGED <<task_id_counter, scraping_tasks, heap, handler, reader>>

\* ResultOf without the single-record case: always the list.
ResultOfAlwaysList(results) == [kind |-> "list", value |-> results]

\* results[0] if len(results) == 1 else results
ResultOf(results) ==
    IF Len(results) = 1 THEN [kind |-> "single", value |-> results[1]]
    ELSE [kind |-> "list", value |-> results]

\* SetResult with lines 331 and 332 swapped: the status is written first.
SetResultSwapped(w) ==
    /\ worker[w].pc = "set_result"
    /\ heap' = [heap EXCEPT ![worker[w].task].status = "completed"]
    /\ worker' = [worker EXCEPT ![w].pc = "set_completed"]
    /\ UNCHANGED <<task_id_counter, scraping_tasks, handler, reader>>

\* app.py:331: task.result = ...
SetResult(w) ==
    /\ worker[w].pc = "set_result"
    /\ heap' = [heap EXCEPT ![worker[w].task].result = ResultOf(worker[w].results)]
    /\ worker' = [worker EXCEPT ![w].pc = "set_completed"]
    /\ UNCHANGED <<task_id_counter, scraping_tasks, handler, reader>>

\* app.py:332: task.status = 'completed'
SetCompleted(w) ==
    /\ worker[w].pc = "set_completed"
    /\ heap' = [heap EXCEPT ![worker[w].task].status = "completed"]
    /\ worker' = [worker EXCEPT ![w].pc = "set_completed_at"]
    /\ UNCHANGED <<task_id_counter, scraping_tasks, handler, reader>>

\* app.py:333: task.completed_at = datetime.now().isoformat()
SetCompletedAt(w) ==
    /\ worker[w].pc = "set_completed_at"
    /\ heap' = [heap EXCEPT ![worker[w].task].completed_at = Stamp]
    /\ worker' = [worker EXCEPT ![w].pc = "done"]
    /\ UNCHANGED <<task_id_counter, scraping_tasks, handler, reader>>

\* FailStatus of a worker that sleeps on the failing path too, as if the
\* sleep of line 328 stood in a finally clause.
FailStatusAfterDelay(w) ==
    /\ worker[w].pc = "fail_status"
    /\ heap' = [heap EXCEPT ![worker[w].task].status = "failed"]
    /\ worker' = [worker EXCEPT
          ![w].pc = "fail_error",
          ![w].log = Append(@, Event("delay", <<>>, TRUE))]
    /\ UNCHANGED <<task_id_counter, scraping_tasks, handler, reader>>

\* app.py:339: except Exception: task.status = 'failed'
FailStatus(w) ==
    /\ worker[w].pc = "fail_status"
    /\ heap' = [heap EXCEPT ![worker[w].task].status = "failed"]
    /\ worker' = [worker EXCEPT ![w].pc = "fail_error"]
    /\ UNCHANGED <<task_id_counter, scraping_tasks, handler, reader>>

\* app.py:340: task.error = str(e)
FailError(w) ==
    /\ worker[w].pc = "fail_error"
    /\ heap' = [heap EXCEPT ![worker[w].task].error = worker[w].exc]
    /\ worker' = [worker EXCEPT ![w].pc = "fail_completed_at"]
    /\ UNCHANGED <<task_id_counter, scraping_tasks, handler, reader>>

\* app.py:341: task.completed_at = datetime.now().isoformat()
FailCompletedAt(w) ==
    /\ worker[w].pc = "fail_completed_at"
    /\ heap' = [heap EXCEPT ![worker[w].task].completed_at = Stamp]
    /\ worker' = [worker EXCEPT ![w].pc = "done"]
    /\ UNCHANGED <<task_id_counter, scraping_tasks, handler, reader>>

\* ------------------------------------------------------------- readers
\* The reader sends its response and is ready for the next request.
Send(reply) ==
    reader' = [reader EXCEPT !.pc = "idle", !.reply = NoReply,
                             !.replies = Append(@, reply)]

\* app.py:140-143: GET /api/tasks/<task_id>, for a task id among ids.
GetTaskLookup(ids) ==
    /\ reader.pc = "idle"
    /\ Len(reader.replies) < MaxReads
    /\ \E task_id \in ids :
          IF task_id \notin DOMAIN scraping_tasks
          THEN Send(Reply("get_task", task_id, 404, None, Absent, "absent"))
          ELSE reader' = [reader EXCEPT
                  !.pc = "task_fields",
                  !.task = scraping_tasks[task_id],
                  !.reply = Reply("get_task", task_id, 200, None, Absent,
                                  "absent")]
    /\ UNCHANGED <<task_id_counter, scraping_tasks, heap, handler, worker>>

\* app.py:145-156: the response dict is built; of the attributes it reads
\* the status is kept.
GetTaskFields ==
    /\ reader.pc = "task_fields"
    /\ reader' = [reader EXCEPT !.pc = "task_branch",
                                !.reply.status = heap[reader.task].status]
    /\ UNCHANGED <<task_id_counter, scraping_tasks, heap, handler, worker>>

\* app.py:158, 160, 163: the status is read again and decides which key is
\* added; a task neither completed nor failed is answered as it is.
GetTaskBranch ==
    /\ reader.pc = "task_branch"
    /\ IF heap[reader.task].status = "completed"
       THEN reader' = [reader EXCEPT !.pc = "task_result"]
       ELSE IF heap[reader.task].status = "failed"
       THEN reader' = [reader EXCEPT !.pc = "task_error"]
       ELSE Send(reader.reply)
    /\ UNCHANGED <<task_id_counter, scraping_tasks, heap, handler, worker>>

\* app.py:159, 163: response['result'] = task.result
GetTaskResultKey ==
    /\ reader.pc = "task_result"
    /\ Send([reader.reply EXCEPT !.result = heap[reader.task].result])
    /\ UNCHANGED <<task_id_counter, scraping_tasks, heap, handler, worker>>

\* app.py:161, 163: response['error'] = task.error
GetTaskErrorKey ==
    /\ reader.pc = "task_error"
    /\ Send([reader.reply EXCEPT !.error = heap[reader.task].error])
    /\ UNCHANGED <<task_id_counter, scraping_tasks, heap, handler, worker>>

\* app.py:173-176: GET /api/tasks/<task_id>/result, for a task id among ids.
GetResultLookup(ids) ==
    /\ reader.pc = "idle"
    /\ Len(reader.replies) < MaxReads
    /\ \E task_id \in ids :
          IF task_id \notin DOMAIN scraping_tasks
          THEN Send(Reply("get_task_result", task_id, 404, None, Absent,
                          "absent"))
          ELSE reader' = [reader EXCEPT
                  !.pc = "result_check",
                  !.task = scraping_tasks[task_id],
                  !.reply = Reply("get_task_result", task_id, 0, None,
                                  Absent, "absent")]
    /\ UNCHANGED <<task_id_counter, scraping_tasks, heap, handler, worker>>

\* GetResultCheck treating a failed task as ready: only pending and
\* processing are turned away.
GetResultCheckUnfinished ==
    /\ reader.pc = "result_check"
    /\ reader' = [reader EXCEPT
          !.pc = IF heap[reader.task].status \in {"pending", "processing"}
                 THEN "result_not_ready" ELSE "result_return"]
    /\ UNCHANGED <<task_id_counter, scraping_tasks, heap, handler, worker>>

\* app.py:178: if task.status != 'completed'
GetResultCheck ==
    /\ reader.pc = "result_check"
    /\ reader' = [reader EXCEPT
          !.pc = IF heap[reader.task].status # "completed"
                 THEN "result_not_ready" ELSE "result_return"]
    /\ UNCHANGED <<task_id_counter, scraping_tasks, heap, handler, worker>>

\* app.py:179: the message reads the status again; 400.
GetResultNotReady ==
    /\ reader.pc = "result_not_ready"
    /\ Send([reader.reply EXCEPT !.code = 400,
                                 !.status = heap[reader.task].status])
    /\ UNCHANGED <<task_id_counter, scraping_tasks, heap, handler, worker>>

\* app.py:181: return jsonify({'result': task.result})
GetResultReturn ==
    /\ reader.pc = "result_return"
    /\ Send([reader.reply EXCEPT !.code = 200,
                                 !.result = heap[reader.task].result])
    /\ UNCHANGED <<task_id_counter, scraping_tasks, heap, handler, worker>>

\* get_task() for a task id among ids.
GetTaskStep(ids) ==
    \/ GetTaskLookup(ids)
    \/ GetTaskFields
    \/ GetTaskBranch
    \/ GetTaskResultKey
    \/ GetTaskErrorKey

\* get_task_result() for a task id among ids.
GetResultStep(ids) ==
    \/ GetResultLookup(ids)
    \/ GetResultCheck
    \/ GetResultNotReady
    \/ GetResultReturn

\* ------------------------------------------------------- specification
\* Everything a request thread and its worker thread can do.
Step(h, R, H) ==
    \/ Validate(h, R)
    \/ InitId(h)
    \/ IncrLoad(h)
    \/ IncrStore(h)
    \/ StoreTask(h)
    \/ StartThread(h)
    \/ Respond(h)
    \/ Lookup(h)
    \/ SetProcessing(h)
    \/ SetStarted(h)
    \/ Fetch(h, H)
    \/ LoopExit(h)
    \/ Extract(h)
    \/ Paginate(h)
    \/ Sleep(h)
    \/ SetResult(h)
    \/ SetCompleted(h)
    \/ SetCompletedAt(h)
    \/ FailStatus(h)
    \/ FailError(h)
    \/ FailCompletedAt(h)

\* Requests served concurrently, each on its own thread.
Next == \E h \in Handlers : Step(h, Requests, HrefInputs)

Spec == Init /\ [][Next]_vars

\* One request served on its own, drawn from the wide inputs.
NextWide == Step(1, WideRequests, WideHrefs)

SpecWide == Init /\ [][NextWide]_vars

\* One request for a page of structured data, or for no page, served
\* while GET requests for the demo task, for the task submitted and for a
\* task never submitted are served.
ReadRequests ==
    {Request(TRUE, GoodUrl, "json", "none", "none", 1),
     Request(TRUE, GoodUrl, "text", "none", "none", 0)}
ReadIds == {ToStr(1), ToStr(2), <<"n", "o">>}
NextRead ==
    \/ Step(1, ReadRequests, {<<>>})
    \/ GetTaskStep(ReadIds)
    \/ GetResultStep(ReadIds)

SpecRead == Init /\ [][NextRead]_vars

\* Two requests served concurrently, the first for one page, the second
\* for no page, while GET requests for task 2 are served.
NextRace ==
    \/ Step(1, {Request(TRUE, GoodUrl, "text", "none", "none", 1)}, {<<>>})
    \/ Step(MaxSubmits, {Request(TRUE, GoodUrl, "text", "none", "none", 0)},
            {<<>>})
    \/ GetTaskStep({ToStr(2)})

SpecRace == Init /\ [][NextRace]_vars

\* ============================================================== claims
Tasks == DOMAIN heap
Terminal == {"completed", "failed"}

\* The status moves the claims allow.
LegalMoves == {<<"pending", "processing">>, <<"processing", "completed">>,
               <<"processing", "failed">>}

\* C1: in every step, every task's status either stays as it is or moves
\* along pending -> processing -> completed | failed: no regression, no
\* skip from pending to a terminal status, no change after a terminal one.
C1_StatusMonotone ==
    [][\A o \in Tasks :
          heap'[o].status # heap[o].status
             => <<heap[o].status, heap'[o].status>> \in LegalMoves]_vars

\* C2: no two task objects ever created carry the same id, the ids grow
\* with the order of the counter reads, and every dict entry still holds
\* the task it was first given (no record is overwritten).
C2_UniqueIds ==
    /\ \A o1, o2 \in Tasks : o1 # o2 => heap[o1].id # heap[o2].id
    /\ \A o \in Tasks : o # DemoObj /\ handler[o].pc \in {"start", "respond", "done"}
          => scraping_tasks[heap[o].id] = o

\* C3: in every state, a task whose status is completed has its result set.
C3_CompletedHasResult ==
    \A o \in Tasks : heap[o].status = "completed" => heap[o].result # NoResult

\* C3 witness: a worker has just made its task completed, and is still
\* running (completed_at is yet to be written); the result is there.
C3_Witness ==
    \E w \in Handlers :
       /\ worker[w].pc = "set_completed_at"
       /\ TaskOf(w).status = "completed"
       /\ TaskOf(w).result.kind = "list"
       /\ Len(TaskOf(w).result.value) = 2

\* C4: in every state, a failed task has its error set and a task in a
\* terminal status has its completion timestamp set.
C4_NoTornTerminal ==
    \A o \in Tasks :
       /\ heap[o].status = "failed" => heap[o].error # None
       /\ heap[o].status \in Terminal => heap[o].completed_at # None

\* C5: in every state, a result is present only on a completed task, an
\* error only on a failed one, and never both.
C5_ResultErrorExclusive ==
    \A o \in Tasks :
       /\ heap[o].result # NoResult => heap[o].status = "completed"
       /\ heap[o].error # None => heap[o].status = "failed"
       /\ ~(heap[o].result # NoResult /\ heap[o].error # None)

\* A request the submit operation is to reject: page count above the
\* limit, format outside the supported four, or no URL.
MustBeRejected(r) ==
    \/ r.max_pages > PageLimit
    \/ r.format \notin SUPPORTED_FORMATS
    \/ ~r.has_url

\* C6: a request that must be rejected is answered with an error and
\* leaves everything as it was at start-up: the counter, the dict, the
\* set of task objects, and no worker started.
C6_RejectedBeforeCreation ==
    \A h \in Handlers :
       (handler[h].pc # "idle" /\ MustBeRejected(handler[h].req))
          => /\ handler[h].pc = "done"
             /\ handler[h].response.code = 400
             /\ task_id_counter = 2
             /\ scraping_tasks = (ToStr(1) :> DemoObj)
             /\ Tasks = {DemoObj}
             /\ worker[h].pc = "unstarted"

\* C6 witness: a request with a URL and a supported format, and 11 pages,
\* has been answered.
C6_Witness ==
    \E h \in Handlers :
       /\ handler[h].pc = "done"
       /\ handler[h].req.has_url
       /\ handler[h].req.format \in SUPPORTED_FORMATS
       /\ handler[h].req.max_pages = PageLimit + 1
       /\ handler[h].response.code = 400

\* C7: every task ever created has a max_pages between 1 and 10.
C7_StoredMaxPagesInRange ==
    \A o \in Tasks : heap[o].max_pages >= 1 /\ heap[o].max_pages <= PageLimit

\* What a worker did, by kind of event.
EventsOf(w, ev) == SelectSeq(worker[w].log, LAMBDA e : e.ev = ev)
FailedFetches(w) == SelectSeq(worker[w].log, LAMBDA e : e.ev = "fetch" /\ ~e.ok)
GoodFetches(w) == SelectSeq(worker[w].log, LAMBDA e : e.ev = "fetch" /\ e.ok)
Finished(w) == worker[w].pc = "done"
\* The worker holds its task object (line 193 is behind it).
Holds(w) == worker[w].pc \notin {"unstarted", "lookup"}

\* C8: once a worker whose fetch failed has finished, its task is failed
\* with an error and without a result, and the failed fetch was the
\* worker's last contact with the outside world.
C8_FetchFailureFailsTask ==
    \A w \in Handlers :
       (Finished(w) /\ Len(FailedFetches(w)) > 0)
          => /\ TaskOf(w).status = "failed"
             /\ TaskOf(w).error # None
             /\ TaskOf(w).result = NoResult
             /\ worker[w].log[Len(worker[w].log)].ev = "fetch"
             /\ ~worker[w].log[Len(worker[w].log)].ok

\* Number of events of kind ev among the first n of worker w.
RECURSIVE CountBefore(_, _, _)
CountBefore(w, ev, n) ==
    IF n = 0 THEN 0
    ELSE CountBefore(w, ev, n - 1) + (IF worker[w].log[n].ev = ev THEN 1 ELSE 0)

\* C9: a worker on a task with a pagination rule and max_pages = k > 1
\* makes at most k fetches and at most k PageResults; the i-th PageResult
\* has page index i and the URL of the i-th successful fetch; and at every
\* fetch all earlier fetches have been extracted.
C9_PageLoopBounded ==
    \A w \in Handlers :
       (Holds(w) /\ TaskOf(w).pagination # "none" /\ TaskOf(w).max_pages > 1)
          => /\ Len(EventsOf(w, "fetch")) <= TaskOf(w).max_pages
             /\ Len(worker[w].results) <= TaskOf(w).max_pages
             /\ \A i \in 1..Len(worker[w].results) :
                   /\ worker[w].results[i].page = i
                   /\ worker[w].results[i].url = GoodFetches(w)[i].url
             /\ \A n \in 1..Len(worker[w].log) :
                   worker[w].log[n].ev = "fetch"
                      => CountBefore(w, "extract", n - 1)
                            = CountBefore(w, "fetch", n - 1)

\* C9 witness: a task with a pagination rule and max_pages = 3 completed
\* with three PageResults.
C9_Witness ==
    \E w \in Handlers :
       /\ Finished(w)
       /\ TaskOf(w).pagination # "none"
       /\ TaskOf(w).max_pages = 3
       /\ TaskOf(w).status = "completed"
       /\ TaskOf(w).result.kind = "list"
       /\ Len(TaskOf(w).result.value) = 3
       /\ Len(EventsOf(w, "fetch")) = 3

\* C10: a finished worker on a task without a pagination rule made exactly
\* one fetch, never invoked the resolver, and, if the fetch succeeded,
\* produced exactly one PageResult.
C10_NoPaginationOneFetch ==
    \A w \in Handlers :
       (Finished(w) /\ TaskOf(w).pagination = "none")
          => /\ Len(EventsOf(w, "fetch")) = 1
             /\ Len(EventsOf(w, "resolve")) = 0
             /\ (Len(GoodFetches(w)) = 1 => Len(worker[w].results) = 1)

\* The worker took the completing path and has written the result
\* (line 331 is behind it).
WroteResult(w) ==
    /\ worker[w].pc \in {"set_completed", "set_completed_at", "done"}
    /\ worker[w].exc = None

\* The pages a worker extracted, in the order it fetched them.
Extracted(w) == SelectSeq(worker[w].log, LAMBDA e : e.ev = "extract" /\ e.ok)

\* The worker's PageResults are those of its extracted pages, in fetch
\* order, numbered from 1.
InFetchOrder(w) ==
    /\ Len(worker[w].results) = Len(Extracted(w))
    /\ \A i \in 1..Len(worker[w].results) :
          /\ worker[w].results[i].url = Extracted(w)[i].url
          /\ worker[w].results[i].page = i

\* C11: a result a worker has written is the single PageResult itself when
\* the worker produced exactly one, and otherwise the sequence of all its
\* PageResults in fetch order; every result in a task record was written
\* so by a worker that completed on that record.
C11_ResultShape ==
    \A t \in Tasks \ {DemoObj} :
       heap[t].result # NoResult =>
          \E w \in Handlers :
             /\ WroteResult(w) /\ worker[w].task = t
             /\ InFetchOrder(w)
             /\ IF Len(worker[w].results) = 1
                THEN /\ heap[t].result.kind = "single"
                     /\ heap[t].result.value = worker[w].results[1]
                ELSE /\ heap[t].result.kind = "list"
                     /\ heap[t].result.value = worker[w].results

\* A task with a pagination rule and room for two pages completed with one
\* page, and its result is the bare record.
C11_Witness ==
    \E w \in Handlers :
       /\ Finished(w) /\ WroteResult(w)
       /\ TaskOf(w).pagination # "none"
       /\ TaskOf(w).max_pages >= 2
       /\ Len(worker[w].results) = 1
       /\ TaskOf(w).result.kind = "single"
       /\ TaskOf(w).status = "completed"

\* Nothing is left to run: every request has been answered and every
\* worker thread that was started has returned.
Quiescent ==
    \A h \in Handlers :
       /\ handler[h].pc \in {"idle", "done"}
       /\ worker[h].pc \in {"unstarted", "done"}

\* C12: every accepted task reaches a terminal state; in the form a finite
\* run can refute: once no request and no worker thread has a step left,
\* no task is still pending or processing.
C12_AllTasksTerminate ==
    Quiescent => \A t \in Tasks \ {DemoObj} : heap[t].status \in Terminal

\* C13: the worker thread started for a submitted task writes that task's
\* record only: a step of the worker that request h started leaves the
\* record of every task other than the one request h created unchanged.
C13_WorkerFrame ==
    [][\A w \in Handlers :
          worker'[w] # worker[w] =>
             \A t \in Tasks \ {w} : heap'[t] = heap[t]]_vars

\* C14: between two successive fetches of one worker there is a delay:
\* whenever the worker's log holds two fetches, a delay lies between them.
C14_DelayBetweenFetches ==
    \A w \in Handlers :
       \A i, j \in 1..Len(worker[w].log) :
          (/\ i < j
           /\ worker[w].log[i].ev = "fetch"
           /\ worker[w].log[j].ev = "fetch")
          => \E k \in (i + 1)..(j - 1) : worker[w].log[k].ev = "delay"

Delays(w) == Len(EventsOf(w, "delay"))

PastSleep(w) ==
    \/ worker[w].pc \in {"set_result", "set_completed", "set_completed_at"}
    \/ Finished(w) /\ worker[w].exc = None

StampsInOrder ==
    \A t \in Tasks :
       /\ heap[t].completed_at # None => heap[t].started_at # None
       /\ heap[t].started_at # None => heap[t].created_at # None

\* C16: each timestamp is set exactly once and in order: the step that
\* writes started_at (line 195) or completed_at (lines 333, 341) finds it
\* unset, no step unsets or writes a timestamp otherwise, and in every
\* state completed_at set implies started_at set implies created_at set.
C16_TimestampsOnce ==
    [][/\ \A w \in Handlers :
             /\ (worker[w].pc = "set_started" /\ worker'[w].pc # "set_started")
                => TaskOf(w).started_at = None
             /\ (/\ worker[w].pc \in {"set_completed_at", "fail_completed_at"}
                 /\ worker'[w].pc = "done")
                => TaskOf(w).completed_at = None
       /\ \A t \in Tasks :
             /\ heap[t].created_at # None => heap'[t].created_at # None
             /\ heap[t].started_at # None => heap'[t].started_at # None
             /\ heap[t].completed_at # None => heap'[t].completed_at # None
       /\ StampsInOrder']_vars

\* A page=<N> query parameter starts at i: the name follows '?' or '&'.
PageParamAt(s, i) ==
    /\ 1 < i /\ i + 1 <= Len(s)
    /\ s[i - 1] \in {"?", "&"}
    /\ s[i] = "page="
    /\ s[i + 1] \in Digits

\* The next URL as C19 states it: the page parameter replaced by its
\* successor, or page=2 appended with '&' or '?'.
ClaimedNext(s) ==
    IF \E i \in 1..Len(s) : PageParamAt(s, i)
    THEN LET i == CHOOSE i \in 1..Len(s) :
                     PageParamAt(s, i) /\ \A j \in 1..(i - 1) : ~PageParamAt(s, j)
             e == DigitRunEnd(s, i + 1)
         IN  SubSeq(s, 1, i) \o ToStr(ToInt(SubSeq(s, i + 1, e)) + 1)
                \o SubSeq(s, e + 1, Len(s))
    ELSE s \o <<IF \E i \in 1..Len(s) : s[i] = "?" THEN "&" ELSE "?">>
           \o <<"page=", "2">>

\* C19: when the pattern rule has just resolved the next URL from a
\* current URL, the URL the loop continues with is the one the claim
\* states for that current URL.
C19_PatternNextUrl ==
    \A w \in Handlers :
       (/\ worker[w].pc = "loop"
        /\ Holds(w)
        /\ TaskOf(w).pagination = "pattern"
        /\ Len(worker[w].log) > 0
        /\ worker[w].log[Len(worker[w].log)].ev = "resolve")
       => worker[w].current_url =
             ClaimedNext(worker[w].log[Len(worker[w].log)].url)

\* The responses get_task_result() has sent.
ResultReplies ==
    {i \in 1..Len(reader.replies) : reader.replies[i].op = "get_task_result"}

\* C17: get_task_result() answers 404 exactly when the id is unknown, 200
\* with the task's result exactly when the status it reads is completed
\* and 400 otherwise; a 200 response carries a result that is set; and no
\* step of a reader changes the counter, the store or any task record.
C17_GetResult ==
    [][/\ reader' # reader =>
             /\ heap' = heap
             /\ scraping_tasks' = scraping_tasks
             /\ task_id_counter' = task_id_counter
       /\ (reader.pc = "idle" /\ reader'.pc = "result_check") =>
             reader'.reply.task_id \in DOMAIN scraping_tasks
       /\ (reader.pc = "result_check" /\ reader' # reader) =>
             (reader'.pc = "result_return"
                 <=> heap[reader.task].status = "completed")
       /\ \A i \in ResultReplies :
             reader.replies[i].code \in {200, 400, 404}
       /\ \A i \in 1..Len(reader'.replies) :
             LET r == reader'.replies[i] IN
             (i > Len(reader.replies) /\ r.op = "get_task_result") =>
                /\ r.code = 404 <=> r.task_id \notin DOMAIN scraping_tasks
                /\ r.code = 404 <=> reader.pc = "idle"
                /\ r.code = 200 <=> reader.pc = "result_return"
                /\ r.code = 400 <=> reader.pc = "result_not_ready"
                /\ r.code = 200 =>
                      /\ r.result = heap[reader.task].result
                      /\ r.result \notin {NoResult, Absent}
                /\ r.code # 200 => r.result = Absent]_vars

\* get_task_result() has answered a task that was not ready with 400 and
\* later the same task, completed, with 200 and its result.
C17_Witness ==
    /\ Len(reader.replies) = 2
    /\ reader.replies[1].op = "get_task_result"
    /\ reader.replies[2].op = "get_task_result"
    /\ reader.replies[1].task_id = ToStr(2)
    /\ reader.replies[2].task_id = ToStr(2)
    /\ reader.replies[1].code = 400
    /\ reader.replies[2].code = 200
    /\ reader.replies[2].result.kind = "single"

\* get_task() found the task completed: the response carries the result.
SawCompleted(r) == r.op = "get_task" /\ r.code = 200 /\ r.result # Absent

\* C18: two get_task() responses for the same task id that both found the
\* task completed carry the same result, whatever ran between them.
C18_GetTaskIdempotent ==
    \A i, j \in 1..Len(reader.replies) :
       (/\ i < j
        /\ SawCompleted(reader.replies[i])
        /\ SawCompleted(reader.replies[j])
        /\ reader.replies[i].task_id = reader.replies[j].task_id)
       => reader.replies[i].result = reader.replies[j].result

\* The workers that hold task object t, and whether all of them are done.
Holders(t) == {w \in Handlers : Holds(w) /\ worker[w].task = t}
Settled(t) == Holders(t) # {} /\ \A w \in Holders(t) : Finished(w)

\* The run met a JSON-LD script that did not parse.
JsonLdFailures(w) ==
    SelectSeq(worker[w].log, LAMBDA e : e.ev = "json_ld" /\ ~e.ok)

\* The run fetched a page whose extraction uses a malformed selector.
BadSelectorUsed(w) ==
    /\ TaskOf(w).selectors = "bad"
    /\ TaskOf(w).format # "links"
    /\ Len(GoodFetches(w)) > 0

\* The run's PageResult for the page at url carries the error object.
HasErrorPayload(w, url) ==
    \E i \in 1..Len(worker[w].results) :
       /\ worker[w].results[i].url = url
       /\ worker[w].results[i].payload = "json_ld_error"

\* C20: a JSON-LD script that does not parse never takes a run to the
\* failing path: the page's PageResult carries the error object, and when
\* no fetch of the task fails the task ends completed with the results of
\* a run as its result; a run that uses a malformed selector fails, and
\* its task ends failed with error set.
C20_ExtractionFailures ==
    /\ \A w \in Handlers :
          /\ Len(JsonLdFailures(w)) > 0 =>
                /\ worker[w].exc \in {None, "FetchError"}
                /\ \A i \in 1..Len(JsonLdFailures(w)) :
                      HasErrorPayload(w, JsonLdFailures(w)[i].url)
          /\ (Holds(w) /\ Finished(w) /\ BadSelectorUsed(w)) =>
                worker[w].exc = "SelectorError"
    /\ \A t \in Tasks \ {DemoObj} :
          Settled(t) =>
             /\ (/\ \E w \in Holders(t) : Len(JsonLdFailures(w)) > 0
                 /\ \A w \in Holders(t) : Len(FailedFetches(w)) = 0)
                => /\ heap[t].status = "completed"
                   /\ heap[t].error = None
                   /\ \E w \in Holders(t) :
                         heap[t].result = ResultOf(worker[w].results)
             /\ (\E w \in Holders(t) : BadSelectorUsed(w))
                => /\ heap[t].status = "failed"
                   /\ heap[t].error # None

\* A task of format json without selectors has completed although the
\* JSON-LD script of its page did not parse; its result is the page's
\* record with the error object.
C20_Witness ==
    \E w \in Handlers :
       /\ Holds(w) /\ Finished(w)
       /\ Len(JsonLdFailures(w)) > 0
       /\ TaskOf(w).status = "completed"
       /\ TaskOf(w).result.kind = "single"
       /\ TaskOf(w).result.value.payload = "json_ld_error"

\* C21: the result of every completed task holds at least one PageResult:
\* it is a single record or a sequence that is not empty.
C21_CompletedHasPage ==
    \A t \in Tasks :
       heap[t].status = "completed" =>
          \/ heap[t].result.kind = "single"
          \/ heap[t].result.kind = "list" /\ Len(heap[t].result.value) >= 1

\* C22: the response of an accepted submit (202) reports the status
\* pending, however the handler and the worker it started interleave.
C22_SubmitReportsPending ==
    \A h \in Handlers :
       handler[h].response.code = 202 =>
          handler[h].response.status = "pending"

\* The page numbers of the URLs a run fetched go up by one.
ConsecutivePages(w) ==
    \A i \in 1..(Len(GoodFetches(w)) - 1) :
       CurrentPageNum(GoodFetches(w)[i + 1].url)
          = CurrentPageNum(GoodFetches(w)[i].url) + 1

\* The run of a task with the pattern rule ended without any failure.
PatternRunDone(w) ==
    /\ Holds(w) /\ Finished(w)
    /\ TaskOf(w).pagination = "pattern"
    /\ worker[w].exc = None

\* C23: a run of a task with the pattern rule and max_pages = k in which
\* nothing failed has fetched exactly k pages, with page numbers going up
\* by one, has produced exactly k PageResults and has completed the task.
C23_PatternRunsToCap ==
    \A w \in Handlers :
       PatternRunDone(w) =>
          /\ Len(GoodFetches(w)) = TaskOf(w).max_pages
          /\ Len(worker[w].results) = TaskOf(w).max_pages
          /\ ConsecutivePages(w)
          /\ TaskOf(w).status = "completed"
====
